---- MODULE Spec2Model ----
(***************************************************************************)
(* SmartGuard server.py: the enrollment capture session                    *)
(* (api_capture_start, api_register, api_capture_stop, api_delete_label,   *)
(* api_clear_all, api_enroll, api_reload, _capture_worker), the recognizer *)
(* hot swap (train_recognizer_from_dir, reload_recognizer) and the frame   *)
(* pipeline (detection_loop).                                              *)
(*                                                                         *)
(* Threads are interleaved at the granularity of one shared-memory access  *)
(* (one statement under the interpreter lock); a bounded join is a step    *)
(* that is enabled when the joined thread is dead or when its timeout has  *)
(* run out.                                                                *)
(***************************************************************************)
EXTENDS Integers, Sequences, FiniteSets, TLC

\* ------------------------------------------------------------------ bounds
MaxWorkers == 2      \* capture-worker threads ever launched in a run
NumThreads == 1      \* request-handling threads of the server
MaxFiles   == 2      \* image files ever written to RECOG_DATA_DIR in a run
MaxTarget  == 1      \* largest target_count a request asks for
MaxEveryN  == 3      \* largest DETECT_EVERY_N / RECOG_EVERY_N configured
MaxFrames  == 6      \* frames read by detection_loop when it runs alone
MaxSwapFrames == 3   \* frames read by detection_loop while handlers reload
MaxRequire == 3      \* largest VOTE_REQUIRE configured
MaxTime    == 5      \* ticks of the wall clock while /recog/current is polled
MaxCurrentFrames == 2 \* frames read by detection_loop while it is polled
MaxStaleFrames == 7  \* frames read by detection_loop around a /recog/clear

\* Label directories, in the order sorted(os.listdir(root)) yields them.
SortedLabels == <<"alice", "bob">>
Labels == {SortedLabels[i] : i \in 1..Len(SortedLabels)}

Workers == 1..MaxWorkers
Threads == (MaxWorkers + 1)..(MaxWorkers + NumThreads)
Loop    == MaxWorkers + NumThreads + 1   \* the detection_loop thread
Procs   == Workers \cup Threads \cup {Loop}

VARIABLES
    capture_state,    \* the capture_state dict (lines 306-314)
    capture_event,    \* capture_event.is_set()
    capture_thread,   \* the Thread object held by capture_thread: a worker id, 0 = None
    wk,               \* per worker: the locals of _capture_worker
    data_dir,         \* the image files under RECOG_DATA_DIR: set of [label, fn]
    clock,            \* number of files written so far (file names are time stamps)
    recognizer,       \* global recognizer
    label2id,         \* global label2id
    id2label,         \* global id2label
    recognizer_lock,  \* holder of recognizer_lock, 0 = free
    pc,               \* per thread: position in its code
    tr,               \* per thread: (rec, l2i, i2l) held by reload_recognizer
    req,              \* per request thread: the request being served
    resp,             \* the response a handler returns in this step (NoResp: none)
    last_stop,        \* history: the last /recog/capture/stop response since a start
    last_scan,        \* history: the result of the latest training-set scan
    DETECT_EVERY_N,   \* configuration read from the environment (line 36)
    RECOG_EVERY_N,    \* configuration read from the environment (line 37)
    VOTE_REQUIRE,     \* configuration read from the environment (line 41)
    scene,            \* the face lists the detector can return on this camera
    frame_limit,      \* frames the camera delivers in this run
    time_limit,       \* how far the wall clock runs in this run
    time,             \* time.time(), in ticks of half a second
    frame_lock,       \* holder of frame_lock, 0 = free
    stop_event,       \* stop_event.is_set()
    frame_idx,        \* detection_loop: frame_idx
    faces_fullres,    \* detection_loop: faces_fullres
    pred_hist,        \* detection_loop: pred_hist
    do_detect,        \* detection_loop: do_detect
    do_recog,         \* detection_loop: do_recog
    rec_snap,         \* detection_loop: rec, read under recognizer_lock
    labels_snap,      \* detection_loop: labels, copied under recognizer_lock
    final_text,       \* detection_loop: final_text
    current_people,   \* global current_people
    latest_jpeg_frame,\* global latest_jpeg_frame (0: None, else the frame's index)
    latest_bgr_frame, \* global latest_bgr_frame (0: None, else the frame's index)
    det_invoked,      \* history: FACE_CASCADE.detectMultiScale ran in this cycle
    predicted,        \* history: the boxes rec.predict was called for in this cycle
    pred_ids          \* history: what rec.predict did for each of those boxes

vars == <<capture_state, capture_event, capture_thread, wk, data_dir, clock,
          recognizer, label2id, id2label, recognizer_lock, pc, tr, req, resp,
          last_stop, last_scan, DETECT_EVERY_N, RECOG_EVERY_N, scene, frame_limit,
          stop_event, frame_idx, faces_fullres, pred_hist, do_detect, do_recog,
          rec_snap, labels_snap, final_text, current_people, latest_jpeg_frame,
          latest_bgr_frame, det_invoked, predicted, VOTE_REQUIRE, time_limit, time,
          frame_lock, pred_ids>>

\* The pipeline's configuration and camera, fixed for a run.
env_vars == <<DETECT_EVERY_N, RECOG_EVERY_N, VOTE_REQUIRE, scene, frame_limit,
              time_limit>>

\* The state only detection_loop writes, and the wall clock.
loop_vars == <<frame_idx, faces_fullres, pred_hist, do_detect, do_recog, rec_snap,
               labels_snap, final_text, current_people, latest_jpeg_frame,
               latest_bgr_frame, det_invoked, predicted, pred_ids, frame_lock, time>>

\* The state of the capture session and its handlers.
session_vars == <<capture_state, capture_event, capture_thread, wk, req, last_stop>>

\* ------------------------------------------------------- training (pure)
\* line 29, with the environment's default
ENABLE_RECOG == TRUE

\* The labels that own at least one image, in scan order.
\* _iter_face_paths: sorted labels, sorted files, image suffix only.
\* A scan that would count every label directory, with or without images.
ScanLabelDirs(dir) == SortedLabels

ScanLabels(dir) ==
    SelectSeq(SortedLabels, LAMBDA l : \E f \in dir : f.label = l)

\* A model is the id -> label-directory assignment it was trained on
\* (None: trained = FALSE).
NoModel == [trained |-> FALSE, classes |-> <<>>]

FnOfSeq(s) == [i \in 0..(Len(s) - 1) |-> s[i + 1]]

\* return None, {}, {} (lines 102, 129); also the globals of lines 53-55
NoTrain == [rec |-> NoModel, l2i |-> [l \in {} |-> 0], i2l |-> FnOfSeq(<<>>)]

\* train_recognizer_from_dir: ids are dense, from 0, in first-seen order.
train_recognizer_from_dir(dir) ==
    LET present == ScanLabels(dir) IN
    IF ~ENABLE_RECOG \/ present = <<>>
    THEN NoTrain
    ELSE [rec |-> [trained |-> TRUE, classes |-> present],
          l2i |-> [l \in {present[i] : i \in 1..Len(present)} |->
                     (CHOOSE i \in 1..Len(present) : present[i] = l) - 1],
          i2l |-> FnOfSeq(present)]

\* api_labels: list(label2id.keys())
GetLabels == DOMAIN label2id

\* ------------------------------------------------------- the pipeline (pure)
RECOG_THRESHOLD == 11
RECOG_MIN_SIDE  == 48
VOTE_WINDOW     == 5
\* line 50: CURRENT_EXPIRE_SEC = 1.5 s, in ticks of half a second
CURRENT_EXPIRE_TICKS == 3

Max(a, b) == IF a >= b THEN a ELSE b
Min(a, b) == IF a <= b THEN a ELSE b

\* Face boxes (x, y, w, h) in full-resolution coordinates: one whose shorter
\* side is just under RECOG_MIN_SIDE (and whose area is the larger), one whose
\* sides are exactly RECOG_MIN_SIDE.
ThinBox   == [x |-> 0, y |-> 0, w |-> RECOG_MIN_SIDE - 1, h |-> RECOG_MIN_SIDE + 2]
SquareBox == [x |-> 8, y |-> 8, w |-> RECOG_MIN_SIDE, h |-> RECOG_MIN_SIDE]

\* What FACE_CASCADE.detectMultiScale returns, scaled (line 199): nobody, one
\* face large enough to recognize, or that face and a larger box whose shorter
\* side is too small.
Scenes == {<<>>, <<SquareBox>>, <<SquareBox, ThinBox>>}

Area(b) == b.w * b.h

\* line 209: sorted(faces_fullres, key=area, reverse=True); the sort is stable.
InsertByArea(b, s) ==
    LET k == Cardinality({i \in 1..Len(s) : Area(s[i]) >= Area(b)})
    IN  SubSeq(s, 1, k) \o <<b>> \o SubSeq(s, k + 1, Len(s))

RECURSIVE SortedByArea(_)
SortedByArea(s) ==
    IF s = <<>> THEN <<>>
    ELSE InsertByArea(s[Len(s)], SortedByArea(SubSeq(s, 1, Len(s) - 1)))

\* conf_val = None
NoConf == -1

\* What rec.predict(face_img) can do: raise, or return an id with a distance
\* (at the threshold, or above it).  The id is a class id of the model or, as
\* line 226 allows for, one more that no registry of the model holds.
PredictOutcomes(rec) ==
    {[raised |-> TRUE, pred_id |-> 0, conf |-> 0]} \cup
    {[raised |-> FALSE, pred_id |-> i, conf |-> c] :
        i \in 0..Len(rec.classes), c \in {RECOG_THRESHOLD, RECOG_THRESHOLD + 1}}

\* The decimation test on a frame counter that would start at zero.
EveryNZeroBased(idx, n) == (idx - 1) % Max(1, n) = 0

\* line 177 / 201: frame_idx % max(1, N) == 0
EveryN(idx, n) == idx % Max(1, n) = 0

\* A size test that would let every box through.
AlwaysRecognizable(b) == TRUE

\* line 216: recognizable = (min(w0, h0) >= RECOG_MIN_SIDE)
Recognizable(b) == Min(b.w, b.h) >= RECOG_MIN_SIDE

\* A prediction that would not look at do_recog.
PredictCalledAnyCycle(rec, recog, b) == rec.trained /\ Recognizable(b)

\* line 218 (220: a box of positive width and height has a non-empty crop)
PredictCalled(rec, recog, b) == rec.trained /\ recog /\ Recognizable(b)

\* An acceptance test that would refuse a distance equal to the threshold.
AcceptedBelow(conf, pred_id, labels) ==
    conf < RECOG_THRESHOLD /\ pred_id \in DOMAIN labels

\* line 226: conf <= RECOG_THRESHOLD and pred_id in labels
Accepted(conf, pred_id, labels) ==
    conf <= RECOG_THRESHOLD /\ pred_id \in DOMAIN labels

\* lines 213-230, 242-247: one entry of faces_out
FaceOut(rec, labels, recog, b, out, ts) ==
    LET called == PredictCalled(rec, recog, b)
        answered == called /\ ~out.raised
    IN  [label |-> IF answered /\ Accepted(out.conf, out.pred_id, labels)
                   THEN labels[out.pred_id] ELSE "unknown",
         conf  |-> IF answered THEN out.conf ELSE NoConf,
         bbox  |-> b,
         ts    |-> ts]

\* An append to a window that would have no maxlen.
ListAppend(hist, e) == Append(hist, e)

\* lines 165, 257: pred_hist.append(...) on a deque(maxlen=max(1, VOTE_WINDOW))
DequeAppend(hist, e) ==
    LET full == Append(hist, e)
    IN  IF Len(full) > Max(1, VOTE_WINDOW) THEN Tail(full) ELSE full

\* lines 259-266: the smoothed label.  Counter.most_common(1) gives the label
\* with the most votes, the first seen among equals.  (The mean distance that
\* line 266 appends to the text is left out.)
Votes(hist, l) == Cardinality({i \in 1..Len(hist) : hist[i].label = l})
\* A count that would remember where a label was seen last.
LastSeen(hist, l) == CHOOSE i \in 1..Len(hist) :
                        hist[i].label = l /\ \A j \in (i + 1)..Len(hist) : hist[j].label # l

FirstSeen(hist, l) == CHOOSE i \in 1..Len(hist) :
                         hist[i].label = l /\ \A j \in 1..(i - 1) : hist[j].label # l

Smoothed(hist) ==
    LET named == {hist[i].label : i \in 1..Len(hist)} \ {"unknown"}
    IN  IF named = {} THEN "unknown"
        ELSE LET top == CHOOSE l \in named : \A m \in named :
                          \/ Votes(hist, l) > Votes(hist, m)
                          \/ Votes(hist, l) = Votes(hist, m)
                               /\ FirstSeen(hist, l) <= FirstSeen(hist, m)
             IN  IF Votes(hist, top) >= VOTE_REQUIRE THEN top ELSE "unknown"

\* ------------------------------------------------------------ initial state
NoLabel == ""

NoReq == [op |-> "none", label |-> NoLabel, interval_ms |-> 0, target_count |-> 0,
          face |-> TRUE, retrain |-> TRUE, wait |-> FALSE,
          forced |-> FALSE, joined |-> FALSE,
          prev_valid |-> FALSE, prev_saved |-> <<>>, now |-> 0]

NoResp == [op |-> "none", code |-> 0, running |-> FALSE, saved |-> <<>>,
           labels |-> {}, forced |-> FALSE, joined |-> FALSE, deleted |-> NoLabel,
           prev_valid |-> FALSE, prev_saved |-> <<>>, people |-> <<>>, ts |-> 0]

NoLocals == [label |-> NoLabel, interval |-> 0, target |-> 0, face_only |-> TRUE,
             saved |-> <<>>]

\* capture_state as the module defines it (lines 306-314)
InitCaptureState ==
    [running |-> FALSE, label |-> NoLabel, interval_ms |-> 50, target_count |-> 30,
     saved |-> <<>>, face_only |-> TRUE, retrain_on_stop |-> TRUE]

\* The module-level state of the handlers after import (lines 52-55, 304-314).
InitSession ==
    /\ capture_state = InitCaptureState
    /\ capture_event = FALSE
    /\ capture_thread = 0
    /\ wk = [w \in Workers |-> NoLocals]
    /\ clock = 0
    /\ recognizer = NoModel
    /\ label2id = NoTrain.l2i
    /\ id2label = NoTrain.i2l
    /\ recognizer_lock = 0
    /\ tr = [p \in Procs |-> NoTrain]
    /\ req = [t \in Threads |-> NoReq]
    /\ resp = NoResp
    /\ last_stop = [valid |-> FALSE, was_running |-> FALSE, saved |-> <<>>]
    /\ last_scan = NoTrain
    /\ stop_event = FALSE
    /\ frame_lock = 0
    /\ time = 0

\* The pipeline's share of it (lines 43-49) and the locals detection_loop
\* starts with (lines 160-165).
InitPipeline ==
    /\ pc = [p \in Procs |-> IF p \in Workers THEN "unborn"
                             ELSE IF p = Loop THEN "l_open" ELSE "idle"]
    /\ frame_idx = 0
    /\ faces_fullres = <<>>
    /\ pred_hist = <<>>
    /\ do_detect = FALSE
    /\ do_recog = FALSE
    /\ rec_snap = NoModel
    /\ labels_snap = NoTrain.i2l
    /\ final_text = "unknown"
    /\ current_people = <<>>
    /\ latest_jpeg_frame = 0
    /\ latest_bgr_frame = 0
    /\ det_invoked = FALSE
    /\ predicted = {}
    /\ pred_ids = <<>>

InitProgram == InitSession /\ InitPipeline

\* The pipeline after its start on an empty training root and one cycle with
\* nobody in view, under the defaults of lines 36-37: the first frame is
\* published, the loop is about to read the next one.
FirstFramePublished ==
    /\ pc = [p \in Procs |-> IF p \in Workers THEN "unborn"
                             ELSE IF p = Loop THEN "l_read" ELSE "idle"]
    /\ frame_idx = 1
    /\ faces_fullres = <<>>
    /\ pred_hist = <<>>
    /\ do_detect = TRUE
    /\ do_recog = FALSE
    /\ rec_snap = NoModel
    /\ labels_snap = NoTrain.i2l
    /\ final_text = "unknown"
    /\ current_people = <<>>
    /\ latest_jpeg_frame = 1
    /\ latest_bgr_frame = 1
    /\ det_invoked = TRUE
    /\ predicted = {}
    /\ pred_ids = <<>>

\* The enrollment workflow runs with the defaults of lines 36-41 from an empty
\* training root, on a server whose pipeline has published its first frame
\* (the capture worker saves nothing before that, line 319) and whose camera
\* then delivers no further frame.
Init ==
    /\ InitSession
    /\ FirstFramePublished
    /\ data_dir = {}
    /\ DETECT_EVERY_N = 1
    /\ RECOG_EVERY_N = 2
    /\ VOTE_REQUIRE = 3
    /\ scene = Scenes
    /\ frame_limit = 1
    /\ time_limit = 0

\* lines 274, 317: with frame_lock
FrameLockFree == frame_lock = 0

\* A publication that would not take the lock: frame_lock stays free.
FrameLockSkipped(p) == 0

\* The value of frame_lock while thread p is inside `with frame_lock`.
FrameLockHeld(p) == p

\* Thread.is_alive(): started and not yet returned from its target (a returned
\* thread's locals are gone: wk is reset)
Alive(w) == w \in Workers /\ pc[w] \notin {"unborn", "dead"}

\* --------------------------------------------------------- reload_recognizer
\* Where a thread continues when reload_recognizer returns.
AfterReload(p) ==
    IF p \in Workers THEN "dead"
    ELSE IF p = Loop THEN "l_read"
    ELSE CASE req[p].op = "delete" -> "dl_ret"
           [] req[p].op = "clear"  -> "cl_ret"
           [] req[p].op = "enroll" -> "en_ret"
           [] OTHER                -> "rl_ret"

\* line 138: rec, l2i, i2l = train_recognizer_from_dir(RECOG_DATA_DIR), outside the lock
ReloadScan(p) ==
    /\ pc[p] = "reload_scan"
    /\ tr' = [tr EXCEPT ![p] = train_recognizer_from_dir(data_dir)]
    /\ last_scan' = train_recognizer_from_dir(data_dir)
    /\ pc' = [pc EXCEPT ![p] = "reload_rec"]
    /\ resp' = NoResp
    /\ UNCHANGED <<env_vars, loop_vars, stop_event>>
    /\ UNCHANGED <<capture_state, capture_event, capture_thread, wk, data_dir, clock,
                   recognizer, label2id, id2label, recognizer_lock, req, last_stop>>

\* A swap or a snapshot that would not wait for the lock (the fault the lock excludes).
LockIgnored == TRUE

\* line 139: with recognizer_lock
LockFree == recognizer_lock = 0

\* lines 139-141: acquire the lock, recognizer = rec, label2id = l2i
\* (no reader reads these two without the lock together)
ReloadSetRec(p) ==
    /\ pc[p] = "reload_rec"
    /\ LockFree
    /\ recognizer_lock' = p
    /\ recognizer' = tr[p].rec
    /\ label2id' = tr[p].l2i
    /\ pc' = [pc EXCEPT ![p] = "reload_i2l"]
    /\ resp' = NoResp
    /\ UNCHANGED <<env_vars, loop_vars, stop_event>>
    /\ UNCHANGED <<capture_state, capture_event, capture_thread, wk, data_dir, clock,
                   id2label, tr, req, last_stop, last_scan>>

\* lines 142-143: id2label = i2l, release the lock, return True
ReloadSetI2l(p) ==
    /\ pc[p] = "reload_i2l"
    /\ id2label' = tr[p].i2l
    /\ recognizer_lock' = 0
    /\ tr' = [tr EXCEPT ![p] = NoTrain]
    /\ pc' = [pc EXCEPT ![p] = AfterReload(p)]
    /\ wk' = IF p \in Workers THEN [wk EXCEPT ![p] = NoLocals] ELSE wk
    /\ resp' = NoResp
    /\ UNCHANGED <<env_vars, loop_vars, stop_event>>
    /\ UNCHANGED <<capture_state, capture_event, capture_thread, data_dir, clock,
                   recognizer, label2id, req, last_stop, last_scan>>

\* ----------------------------------------------------------- _capture_worker
\* lines 346-351: the worker copies its parameters out of capture_state
WorkerInit(w) ==
    /\ pc[w] = "w_init"
    /\ wk' = [wk EXCEPT ![w] = [label |-> capture_state.label,
                                interval |-> capture_state.interval_ms,
                                target |-> capture_state.target_count,
                                face_only |-> capture_state.face_only,
                                saved |-> <<>>]]
    /\ pc' = [pc EXCEPT ![w] = "w_loop"]
    /\ resp' = NoResp
    /\ UNCHANGED <<env_vars, loop_vars, stop_event>>
    /\ UNCHANGED <<capture_state, capture_event, capture_thread, data_dir, clock,
                   recognizer, label2id, id2label, recognizer_lock, tr, req, last_stop, last_scan>>

\* line 352: while not capture_event.is_set() and len(saved) < target
\* (at "w_sleep" the worker is in the time.sleep(interval) of line 356 first)
WorkerLoop(w) ==
    /\ pc[w] \in {"w_loop", "w_sleep"}
    /\ pc' = [pc EXCEPT ![w] =
                IF ~capture_event /\ Len(wk[w].saved) < wk[w].target
                THEN "w_save" ELSE "w_set_saved"]
    /\ resp' = NoResp
    /\ UNCHANGED <<env_vars, loop_vars, stop_event>>
    /\ UNCHANGED <<capture_state, capture_event, capture_thread, wk, data_dir, clock,
                   recognizer, label2id, id2label, recognizer_lock, tr, req, last_stop, last_scan>>

\* lines 353-356 with _save_one_face (316-343): the frame is read under
\* frame_lock; no frame or no face gives None;
\* otherwise one file is written under the label's directory (created when
\* missing) and its name appended to saved; then the worker sleeps.
WorkerSave(w) ==
    /\ pc[w] = "w_save"
    /\ FrameLockFree
    /\ \/ /\ latest_bgr_frame # 0
          /\ clock < MaxFiles
          /\ clock' = clock + 1
          /\ data_dir' = data_dir \cup {[label |-> wk[w].label, fn |-> clock + 1]}
          /\ wk' = [wk EXCEPT ![w].saved =
                       Append(@, [label |-> wk[w].label, fn |-> clock + 1])]
       \/ UNCHANGED <<clock, data_dir, wk>>
    /\ pc' = [pc EXCEPT ![w] = "w_sleep"]
    /\ resp' = NoResp
    /\ UNCHANGED <<env_vars, loop_vars, stop_event>>
    /\ UNCHANGED <<capture_state, capture_event, capture_thread,
                   recognizer, label2id, id2label, recognizer_lock, tr, req, last_stop, last_scan>>

\* line 358: capture_state["saved"] = saved
WorkerSetSaved(w) ==
    /\ pc[w] = "w_set_saved"
    /\ capture_state' = [capture_state EXCEPT !.saved = wk[w].saved]
    /\ pc' = [pc EXCEPT ![w] = "w_set_running"]
    /\ resp' = NoResp
    /\ UNCHANGED <<env_vars, loop_vars, stop_event>>
    /\ UNCHANGED <<capture_event, capture_thread, wk, data_dir, clock,
                   recognizer, label2id, id2label, recognizer_lock, tr, req, last_stop, last_scan>>

\* line 359: capture_state["running"] = False
WorkerSetRunning(w) ==
    /\ pc[w] = "w_set_running"
    /\ capture_state' = [capture_state EXCEPT !.running = FALSE]
    /\ pc' = [pc EXCEPT ![w] = "w_retrain"]
    /\ resp' = NoResp
    /\ UNCHANGED <<env_vars, loop_vars, stop_event>>
    /\ UNCHANGED <<capture_event, capture_thread, wk, data_dir, clock,
                   recognizer, label2id, id2label, recognizer_lock, tr, req, last_stop, last_scan>>

\* lines 361-362: if capture_state.get("retrain_on_stop", True): reload_recognizer()
WorkerRetrain(w) ==
    /\ pc[w] = "w_retrain"
    /\ pc' = [pc EXCEPT ![w] =
                IF capture_state.retrain_on_stop THEN "reload_scan" ELSE "dead"]
    /\ wk' = IF capture_state.retrain_on_stop THEN wk ELSE [wk EXCEPT ![w] = NoLocals]
    /\ resp' = NoResp
    /\ UNCHANGED <<env_vars, loop_vars, stop_event>>
    /\ UNCHANGED <<capture_state, capture_event, capture_thread, data_dir, clock,
                   recognizer, label2id, id2label, recognizer_lock, tr, req, last_stop, last_scan>>

\* ------------------------------------------- api_capture_start, api_register
\* interval_ms as clients send it: the /recog/capture/start default (line 377)
\* and one longer than the join timeout.  face is left to its default "true".
RequestIntervals == {200, 5000}
DefaultFace == TRUE

\* A start step by any thread ends the "twice in a row" window of the stop history.
StartSeen ==
    /\ last_stop' = [last_stop EXCEPT !.valid = FALSE]

ForgetPrev(r) == [r EXCEPT !.prev_valid = FALSE, !.prev_saved = <<>>]

\* Worker threads not yet created (threading.Thread(...) makes a fresh one).
Unborn == {w \in Workers : pc[w] = "unborn"}
Starting == {t \in Threads : pc[t] \in {"cs_update", "cs_clear", "cs_launch"}}

\* An admission test that would not look at capture_state["running"].
StartAdmittedNoGuard(label) == label # NoLabel

\* lines 369-372 / 549-559: the request's guards. True when the handler goes on
\* to start a session.
StartAdmitted(label) == label # NoLabel /\ ~capture_state.running

\* lines 365-372 (op = "start") and 545-559 (op = "register"):
\* 400 without a label, 409 while capture_state["running"], else go on.
StartCheck(t, op, label, interval_ms, target_count, retrain, wait) ==
    /\ pc[t] = "idle"
    /\ Cardinality(Unborn) > Cardinality(Starting)
    /\ StartSeen
    /\ IF StartAdmitted(label)
       THEN /\ pc' = [pc EXCEPT ![t] = "cs_update"]
            /\ req' = [u \in Threads |->
                         IF u = t
                         THEN [NoReq EXCEPT !.op = op, !.label = label,
                                            !.interval_ms = interval_ms,
                                            !.target_count = target_count,
                                            !.face = DefaultFace, !.retrain = retrain,
                                            !.wait = wait]
                         ELSE ForgetPrev(req[u])]
            /\ resp' = NoResp
       ELSE /\ pc' = pc
            /\ req' = [u \in Threads |-> ForgetPrev(req[u])]
            /\ resp' = [NoResp EXCEPT !.op = op,
                                         !.code = IF label = NoLabel THEN 400 ELSE 409]
    /\ UNCHANGED <<env_vars, loop_vars, stop_event>>
    /\ UNCHANGED <<capture_state, capture_event, capture_thread, wk, data_dir, clock,
                   recognizer, label2id, id2label, recognizer_lock, tr, last_scan>>

\* lines 374-382 / 561-569: capture_state.update({...})
StartUpdate(t) ==
    /\ pc[t] = "cs_update"
    /\ StartSeen
    /\ capture_state' = [running |-> TRUE, label |-> req[t].label,
                         interval_ms |-> req[t].interval_ms,
                         target_count |-> req[t].target_count,
                         saved |-> <<>>, face_only |-> req[t].face,
                         retrain_on_stop |-> req[t].retrain]
    /\ pc' = [pc EXCEPT ![t] = "cs_clear"]
    /\ req' = [u \in Threads |-> ForgetPrev(req[u])]
    /\ resp' = NoResp
    /\ UNCHANGED <<env_vars, loop_vars, stop_event>>
    /\ UNCHANGED <<capture_event, capture_thread, wk, data_dir, clock,
                   recognizer, label2id, id2label, recognizer_lock, tr, last_scan>>

\* line 384 / 570: capture_event.clear()
StartClear(t) ==
    /\ pc[t] = "cs_clear"
    /\ StartSeen
    /\ capture_event' = FALSE
    /\ pc' = [pc EXCEPT ![t] = "cs_launch"]
    /\ req' = [u \in Threads |-> ForgetPrev(req[u])]
    /\ resp' = NoResp
    /\ UNCHANGED <<env_vars, loop_vars, stop_event>>
    /\ UNCHANGED <<capture_state, capture_thread, wk, data_dir, clock,
                   recognizer, label2id, id2label, recognizer_lock, tr, last_scan>>

\* lines 385-387 / 571-572, 592-597: a new worker thread is created, stored in
\* capture_thread and started; the handler answers (register with wait polls first).
StartLaunch(t) ==
    /\ pc[t] = "cs_launch"
    /\ StartSeen
    /\ \E w \in Unborn :
          /\ \A v \in Unborn : w <= v
          /\ capture_thread' = w
          /\ IF req[t].op = "register" /\ req[t].wait
             THEN /\ pc' = [pc EXCEPT ![w] = "w_init", ![t] = "rg_wait"]
                  /\ req' = [u \in Threads |-> ForgetPrev(req[u])]
                  /\ resp' = NoResp
             ELSE /\ pc' = [pc EXCEPT ![w] = "w_init", ![t] = "idle"]
                  /\ req' = [u \in Threads |->
                               IF u = t THEN NoReq ELSE ForgetPrev(req[u])]
                  /\ resp' = [NoResp EXCEPT !.op = req[t].op,
                                               !.code = IF req[t].op = "start"
                                                        THEN 200 ELSE 202,
                                               !.running = TRUE]
    /\ UNCHANGED <<env_vars, loop_vars, stop_event>>
    /\ UNCHANGED <<capture_state, capture_event, wk, data_dir, clock,
                   recognizer, label2id, id2label, recognizer_lock, tr, last_scan>>

\* lines 574-590: poll capture_state["running"] until it is false or the timeout
\* has passed, then report.
RegisterWait(t) ==
    /\ pc[t] = "rg_wait"
    /\ pc' = [pc EXCEPT ![t] = "idle"]
    /\ req' = [req EXCEPT ![t] = NoReq]
    /\ resp' = [NoResp EXCEPT !.op = "register",
                                 !.code = IF capture_state.running THEN 202 ELSE 200,
                                 !.running = capture_state.running,
                                 !.saved = capture_state.saved,
                                 !.labels = GetLabels]
    /\ UNCHANGED <<env_vars, loop_vars, stop_event>>
    /\ UNCHANGED <<capture_state, capture_event, capture_thread, wk, data_dir, clock,
                   recognizer, label2id, id2label, recognizer_lock, tr,
                   last_stop, last_scan>>

\* ----------------------------------------------------------- api_capture_stop
\* lines 392-393: not running: report the stored saved list.  Otherwise go on.
StopCheck(t) ==
    /\ pc[t] = "idle"
    /\ IF ~capture_state.running
       THEN /\ resp' = [NoResp EXCEPT !.op = "stop", !.code = 200,
                                         !.saved = capture_state.saved,
                                         !.prev_valid = last_stop.valid,
                                         !.prev_saved = last_stop.saved]
            /\ last_stop' = [valid |-> TRUE, was_running |-> FALSE,
                             saved |-> capture_state.saved]
            /\ UNCHANGED <<pc, req>>
       ELSE /\ pc' = [pc EXCEPT ![t] = "st_set"]
            /\ req' = [req EXCEPT ![t] =
                         [NoReq EXCEPT !.op = "stop",
                                       !.prev_valid = last_stop.valid,
                                       !.prev_saved = last_stop.saved]]
            /\ resp' = NoResp
            /\ UNCHANGED last_stop
    /\ UNCHANGED <<env_vars, loop_vars, stop_event>>
    /\ UNCHANGED <<capture_state, capture_event, capture_thread, wk, data_dir, clock,
                   recognizer, label2id, id2label, recognizer_lock, tr, last_scan>>

\* line 394: capture_event.set()
StopSet(t) ==
    /\ pc[t] = "st_set"
    /\ capture_event' = TRUE
    /\ pc' = [pc EXCEPT ![t] = "st_join"]
    /\ resp' = NoResp
    /\ UNCHANGED <<env_vars, loop_vars, stop_event>>
    /\ UNCHANGED <<capture_state, capture_thread, wk, data_dir, clock,
                   recognizer, label2id, id2label, recognizer_lock, tr, req, last_stop, last_scan>>

\* The timeout of capture_thread.join(timeout=2.0), in ms (lines 396, 666).
JoinTimeoutMs == 2000

\* What can keep a worker from ending within the join timeout: a sleep longer
\* than the timeout (line 356), or the training run of its retrain (line 362).
CanOutlastJoin(w) ==
    /\ Alive(w)
    /\ \/ pc[w] = "w_sleep" /\ wk[w].interval > JoinTimeoutMs
       \/ pc[w] \in {"reload_scan", "reload_rec"}

\* `if capture_thread and capture_thread.is_alive(): capture_thread.join(timeout=2.0)`
\* has returned: no join for a dead thread, else the thread ended or the
\* timeout ran out.
JoinDone == ~Alive(capture_thread) \/ CanOutlastJoin(capture_thread)
Joined == ~Alive(capture_thread)

\* lines 395-397: the bounded join, then the answer read from capture_state
StopJoin(t) ==
    /\ pc[t] = "st_join"
    /\ JoinDone
    /\ resp' = [NoResp EXCEPT !.op = "stop", !.code = 200,
                                 !.running = capture_state.running,
                                 !.saved = capture_state.saved,
                                 !.joined = Joined,
                                 !.prev_valid = req[t].prev_valid,
                                 !.prev_saved = req[t].prev_saved]
    /\ last_stop' = [valid |-> TRUE, was_running |-> TRUE,
                     saved |-> capture_state.saved]
    /\ pc' = [pc EXCEPT ![t] = "idle"]
    /\ req' = [req EXCEPT ![t] = NoReq]
    /\ UNCHANGED <<env_vars, loop_vars, stop_event>>
    /\ UNCHANGED <<capture_state, capture_event, capture_thread, wk, data_dir, clock,
                   recognizer, label2id, id2label, recognizer_lock, tr, last_scan>>

\* ----------------------------------------------------------- api_delete_label
DirExists(label) == \E f \in data_dir : f.label = label

\* lines 654-663: 400 without a label, 404 without its directory; the running
\* session is force-stopped when it is for this label.
DeleteCheck(t, label) ==
    /\ pc[t] = "idle"
    /\ IF label = NoLabel \/ ~DirExists(label)
       THEN /\ resp' = [NoResp EXCEPT !.op = "delete",
                                         !.code = IF label = NoLabel THEN 400 ELSE 404]
            /\ UNCHANGED <<pc, req>>
       ELSE /\ pc' = [pc EXCEPT ![t] =
                        IF capture_state.running /\ capture_state.label = label
                        THEN "dl_set" ELSE "dl_rm"]
            /\ req' = [req EXCEPT ![t] = [NoReq EXCEPT !.op = "delete", !.label = label]]
            /\ resp' = NoResp
    /\ UNCHANGED <<env_vars, loop_vars, stop_event>>
    /\ UNCHANGED <<capture_state, capture_event, capture_thread, wk, data_dir, clock,
                   recognizer, label2id, id2label, recognizer_lock, tr,
                   last_stop, last_scan>>

\* line 664: capture_event.set()
DeleteSet(t) ==
    /\ pc[t] = "dl_set"
    /\ capture_event' = TRUE
    /\ pc' = [pc EXCEPT ![t] = "dl_join"]
    /\ resp' = NoResp
    /\ UNCHANGED <<env_vars, loop_vars, stop_event>>
    /\ UNCHANGED <<capture_state, capture_thread, wk, data_dir, clock,
                   recognizer, label2id, id2label, recognizer_lock, tr, req, last_stop, last_scan>>

\* lines 665-667: the bounded join, then capture_state["running"] = False
DeleteJoin(t) ==
    /\ pc[t] = "dl_join"
    /\ JoinDone
    /\ capture_state' = [capture_state EXCEPT !.running = FALSE]
    /\ req' = [req EXCEPT ![t].forced = TRUE, ![t].joined = Joined]
    /\ pc' = [pc EXCEPT ![t] = "dl_rm"]
    /\ resp' = NoResp
    /\ UNCHANGED <<env_vars, loop_vars, stop_event>>
    /\ UNCHANGED <<capture_event, capture_thread, wk, data_dir, clock,
                   recognizer, label2id, id2label, recognizer_lock, tr, last_stop, last_scan>>

\* lines 669-672, 679-680: shutil.rmtree(target_dir) (raises when the directory
\* is gone: 500), then reload_recognizer()
DeleteRemove(t) ==
    /\ pc[t] = "dl_rm"
    /\ IF DirExists(req[t].label)
       THEN /\ data_dir' = {f \in data_dir : f.label # req[t].label}
            /\ pc' = [pc EXCEPT ![t] = "reload_scan"]
            /\ resp' = NoResp
            /\ UNCHANGED req
       ELSE /\ data_dir' = data_dir
            /\ pc' = [pc EXCEPT ![t] = "idle"]
            /\ req' = [req EXCEPT ![t] = NoReq]
            /\ resp' = [NoResp EXCEPT !.op = "delete", !.code = 500]
    /\ UNCHANGED <<env_vars, loop_vars, stop_event>>
    /\ UNCHANGED <<capture_state, capture_event, capture_thread, wk, clock,
                   recognizer, label2id, id2label, recognizer_lock, tr,
                   last_stop, last_scan>>

\* lines 673-678: the answer, with list(label2id.keys())
DeleteReturn(t) ==
    /\ pc[t] = "dl_ret"
    /\ resp' = [NoResp EXCEPT !.op = "delete", !.code = 200,
                                 !.labels = GetLabels,
                                 !.forced = req[t].forced,
                                 !.joined = req[t].joined,
                                 !.deleted = req[t].label]
    /\ pc' = [pc EXCEPT ![t] = "idle"]
    /\ req' = [req EXCEPT ![t] = NoReq]
    /\ UNCHANGED <<env_vars, loop_vars, stop_event>>
    /\ UNCHANGED <<capture_state, capture_event, capture_thread, wk, data_dir, clock,
                   recognizer, label2id, id2label, recognizer_lock, tr,
                   last_stop, last_scan>>

\* -------------------------------------------------------------- api_clear_all
\* lines 685-688: remove the whole training root, recreate it empty, reload
ClearRemove(t) ==
    /\ pc[t] = "idle"
    /\ data_dir' = {}
    /\ pc' = [pc EXCEPT ![t] = "reload_scan"]
    /\ req' = [req EXCEPT ![t] = [NoReq EXCEPT !.op = "clear"]]
    /\ resp' = NoResp
    /\ UNCHANGED <<env_vars, loop_vars, stop_event>>
    /\ UNCHANGED <<capture_state, capture_event, capture_thread, wk, clock,
                   recognizer, label2id, id2label, recognizer_lock, tr,
                   last_stop, last_scan>>

\* line 689: return {"ok": True, "labels": []}
ClearReturn(t) ==
    /\ pc[t] = "cl_ret"
    /\ resp' = [NoResp EXCEPT !.op = "clear", !.code = 200]
    /\ pc' = [pc EXCEPT ![t] = "idle"]
    /\ req' = [req EXCEPT ![t] = NoReq]
    /\ UNCHANGED <<env_vars, loop_vars, stop_event>>
    /\ UNCHANGED <<capture_state, capture_event, capture_thread, wk, data_dir, clock,
                   recognizer, label2id, id2label, recognizer_lock, tr,
                   last_stop, last_scan>>

\* ----------------------------------------------------------------- api_reload
\* line 601: ok = reload_recognizer()
ReloadCall(t) ==
    /\ pc[t] = "idle"
    /\ pc' = [pc EXCEPT ![t] = "reload_scan"]
    /\ req' = [req EXCEPT ![t] = [NoReq EXCEPT !.op = "reload"]]
    /\ resp' = NoResp
    /\ UNCHANGED <<env_vars, loop_vars, stop_event>>
    /\ UNCHANGED <<capture_state, capture_event, capture_thread, wk, data_dir, clock,
                   recognizer, label2id, id2label, recognizer_lock, tr,
                   last_stop, last_scan>>

\* line 602: return {"ok": ok, "labels": list(label2id.keys())}
ReloadReturn(t) ==
    /\ pc[t] = "rl_ret"
    /\ resp' = [NoResp EXCEPT !.op = "reload", !.code = 200, !.labels = GetLabels]
    /\ pc' = [pc EXCEPT ![t] = "idle"]
    /\ req' = [req EXCEPT ![t] = NoReq]
    /\ UNCHANGED <<env_vars, loop_vars, stop_event>>
    /\ UNCHANGED <<capture_state, capture_event, capture_thread, wk, data_dir, clock,
                   recognizer, label2id, id2label, recognizer_lock, tr,
                   last_stop, last_scan>>

\* ----------------------------------------------------------------- api_enroll
\* lines 627-635: 400 without label or image; else the normalised image is
\* written under the label's directory and the recognizer reloaded
EnrollSave(t, label) ==
    /\ pc[t] = "idle"
    /\ IF label = NoLabel
       THEN /\ resp' = [NoResp EXCEPT !.op = "enroll", !.code = 400]
            /\ UNCHANGED <<pc, req, data_dir, clock>>
       ELSE /\ clock < MaxFiles
            /\ clock' = clock + 1
            /\ data_dir' = data_dir \cup {[label |-> label, fn |-> clock + 1]}
            /\ pc' = [pc EXCEPT ![t] = "reload_scan"]
            /\ req' = [req EXCEPT ![t] = [NoReq EXCEPT !.op = "enroll", !.label = label]]
            /\ resp' = NoResp
    /\ UNCHANGED <<env_vars, loop_vars, stop_event>>
    /\ UNCHANGED <<capture_state, capture_event, capture_thread, wk,
                   recognizer, label2id, id2label, recognizer_lock, tr,
                   last_stop, last_scan>>

\* line 636: return {"ok": ok, "saved": fn, "labels": list(label2id.keys())}
EnrollReturn(t) ==
    /\ pc[t] = "en_ret"
    /\ resp' = [NoResp EXCEPT !.op = "enroll", !.code = 200, !.labels = GetLabels]
    /\ pc' = [pc EXCEPT ![t] = "idle"]
    /\ req' = [req EXCEPT ![t] = NoReq]
    /\ UNCHANGED <<env_vars, loop_vars, stop_event>>
    /\ UNCHANGED <<capture_state, capture_event, capture_thread, wk, data_dir, clock,
                   recognizer, label2id, id2label, recognizer_lock, tr,
                   last_stop, last_scan>>

\* ------------------------------------------------------------ detection_loop
\* lines 151-158: the camera does not open and the loop returns, or it opens
\* and the recognizer is loaded.
LoopOpen ==
    /\ pc[Loop] = "l_open"
    /\ \E opened \in BOOLEAN :
          pc' = [pc EXCEPT ![Loop] = IF ~opened THEN "l_done"
                                     ELSE IF ENABLE_RECOG THEN "reload_scan"
                                     ELSE "l_read"]
    /\ resp' = NoResp
    /\ UNCHANGED <<env_vars, loop_vars, stop_event, session_vars>>
    /\ UNCHANGED <<data_dir, clock, recognizer, label2id, id2label, recognizer_lock,
                   tr, last_scan>>

\* lines 167-201: the loop test; a failed read sleeps and retries; a frame
\* read advances frame_idx, the detector runs when do_detect says so, and
\* do_recog is set.  detectMultiScale either returns a face list or raises;
\* nothing around lines 190-199 catches, so the exception leaves
\* detection_loop and its thread ends ("l_raised") before line 201.
LoopRead ==
    /\ pc[Loop] = "l_read"
    /\ IF stop_event
       THEN /\ pc' = [pc EXCEPT ![Loop] = "l_done"]
            /\ UNCHANGED <<frame_idx, do_detect, do_recog, faces_fullres, det_invoked,
                           predicted, pred_ids>>
       ELSE \E ok \in BOOLEAN :
              IF ~ok
              THEN UNCHANGED <<pc, frame_idx, do_detect, do_recog, faces_fullres,
                               det_invoked, predicted, pred_ids>>
              ELSE /\ frame_idx < frame_limit
                   /\ frame_idx' = frame_idx + 1
                   /\ do_detect' = EveryN(frame_idx + 1, DETECT_EVERY_N)
                   /\ predicted' = {}
                   /\ pred_ids' = <<>>
                   /\ IF do_detect'
                      THEN \E raised \in BOOLEAN :
                             IF raised
                             THEN /\ det_invoked' = TRUE
                                  /\ UNCHANGED <<faces_fullres, do_recog>>
                                  /\ pc' = [pc EXCEPT ![Loop] = "l_raised"]
                             ELSE /\ faces_fullres' \in scene
                                  /\ det_invoked' = TRUE
                                  /\ do_recog' = EveryN(frame_idx + 1, RECOG_EVERY_N)
                                  /\ pc' = [pc EXCEPT ![Loop] = "l_snap"]
                      ELSE /\ faces_fullres' = faces_fullres
                           /\ det_invoked' = FALSE
                           /\ do_recog' = EveryN(frame_idx + 1, RECOG_EVERY_N)
                           /\ pc' = [pc EXCEPT ![Loop] = "l_snap"]
    /\ resp' = NoResp
    /\ UNCHANGED <<env_vars, stop_event, session_vars, pred_hist, rec_snap, labels_snap,
                   final_text, current_people, latest_jpeg_frame, latest_bgr_frame,
                   frame_lock, time>>
    /\ UNCHANGED <<data_dir, clock, recognizer, label2id, id2label, recognizer_lock,
                   tr, last_scan>>

\* lines 203-204: with recognizer_lock: rec = recognizer
LoopSnapRec ==
    /\ pc[Loop] = "l_snap"
    /\ LockFree
    /\ recognizer_lock' = Loop
    /\ rec_snap' = recognizer
    /\ pc' = [pc EXCEPT ![Loop] = "l_snap_labels"]
    /\ resp' = NoResp
    /\ UNCHANGED <<env_vars, stop_event, session_vars, frame_idx, faces_fullres,
                   pred_hist, do_detect, do_recog, labels_snap, final_text,
                   current_people, latest_jpeg_frame, latest_bgr_frame, det_invoked,
                   predicted, pred_ids, frame_lock, time>>
    /\ UNCHANGED <<data_dir, clock, recognizer, label2id, id2label, tr, last_scan>>

\* line 205: labels = id2label.copy(), and the lock is released
LoopSnapLabels ==
    /\ pc[Loop] = "l_snap_labels"
    /\ labels_snap' = id2label
    /\ recognizer_lock' = 0
    /\ pc' = [pc EXCEPT ![Loop] = "l_boxes"]
    /\ resp' = NoResp
    /\ UNCHANGED <<env_vars, stop_event, session_vars, frame_idx, faces_fullres,
                   pred_hist, do_detect, do_recog, rec_snap, final_text,
                   current_people, latest_jpeg_frame, latest_bgr_frame, det_invoked,
                   predicted, pred_ids, frame_lock, time>>
    /\ UNCHANGED <<data_dir, clock, recognizer, label2id, id2label, tr, last_scan>>

\* lines 207-272: every box, largest first, is labelled (predicted when the
\* cycle recognizes, a model is loaded and the box is large enough) and stamped
\* with the time of its turn; current_people is replaced; on a recognition
\* cycle the primary box's guess enters pred_hist; the smoothed label is
\* computed; the frame is encoded, or the encoder fails.
LoopBoxes ==
    /\ pc[Loop] = "l_boxes"
    /\ LET faces_iter == SortedByArea(faces_fullres)
           n == Len(faces_iter)
       IN  \E outs \in [1..n -> PredictOutcomes(rec_snap)],
              stamps \in [1..n -> time..Max(time, time_limit)] :
             LET faces_out == [i \in 1..n |->
                                 FaceOut(rec_snap, labels_snap, do_recog,
                                         faces_iter[i], outs[i], stamps[i])]
                 best_for_vote == IF n > 0
                                  THEN [label |-> faces_out[1].label,
                                        conf |-> faces_out[1].conf]
                                  ELSE [label |-> "unknown", conf |-> NoConf]
                 hist == IF do_recog THEN DequeAppend(pred_hist, best_for_vote)
                         ELSE pred_hist
             IN  /\ \A i \in 1..n :
                       PredictCalled(rec_snap, do_recog, faces_iter[i])
                          \/ outs[i] = [raised |-> TRUE, pred_id |-> 0, conf |-> 0]
                 /\ \A i \in 1..(n - 1) : stamps[i] <= stamps[i + 1]
                 /\ time' = IF n > 0 THEN stamps[n] ELSE time
                 /\ predicted' = {i \in 1..n :
                                    PredictCalled(rec_snap, do_recog, faces_iter[i])}
                 /\ pred_ids' = outs
                 /\ current_people' = faces_out
                 /\ pred_hist' = hist
                 /\ final_text' = Smoothed(hist)
    /\ \E encoded \in BOOLEAN :
          pc' = [pc EXCEPT ![Loop] = IF encoded THEN "l_pub_jpeg" ELSE "l_read"]
    /\ resp' = NoResp
    /\ UNCHANGED <<env_vars, stop_event, session_vars, frame_idx, faces_fullres,
                   do_detect, do_recog, rec_snap, labels_snap, det_invoked,
                   latest_jpeg_frame, latest_bgr_frame, frame_lock>>
    /\ UNCHANGED <<data_dir, clock, recognizer, label2id, id2label, recognizer_lock,
                   tr, last_scan>>

\* lines 274-275: acquire frame_lock, latest_jpeg_frame = buf.tobytes()
LoopPublishJpeg ==
    /\ pc[Loop] = "l_pub_jpeg"
    /\ FrameLockFree
    /\ frame_lock' = FrameLockHeld(Loop)
    /\ latest_jpeg_frame' = frame_idx
    /\ pc' = [pc EXCEPT ![Loop] = "l_pub_bgr"]
    /\ resp' = NoResp
    /\ UNCHANGED <<env_vars, stop_event, session_vars, frame_idx, faces_fullres,
                   pred_hist, do_detect, do_recog, rec_snap, labels_snap, final_text,
                   current_people, latest_bgr_frame, det_invoked, predicted, pred_ids,
                   time>>
    /\ UNCHANGED <<data_dir, clock, recognizer, label2id, id2label, recognizer_lock,
                   tr, last_scan>>

\* line 276: latest_bgr_frame = frame, and the lock is released
LoopPublishBgr ==
    /\ pc[Loop] = "l_pub_bgr"
    /\ latest_bgr_frame' = frame_idx
    /\ frame_lock' = 0
    /\ pc' = [pc EXCEPT ![Loop] = "l_read"]
    /\ resp' = NoResp
    /\ UNCHANGED <<env_vars, stop_event, session_vars, frame_idx, faces_fullres,
                   pred_hist, do_detect, do_recog, rec_snap, labels_snap, final_text,
                   current_people, latest_jpeg_frame, det_invoked, predicted, pred_ids,
                   time>>
    /\ UNCHANGED <<data_dir, clock, recognizer, label2id, id2label, recognizer_lock,
                   tr, last_scan>>

\* The wall clock advances.
Tick ==
    /\ time < time_limit
    /\ time' = time + 1
    /\ resp' = NoResp
    /\ UNCHANGED <<env_vars, stop_event, session_vars, frame_idx, faces_fullres,
                   pred_hist, do_detect, do_recog, rec_snap, labels_snap, final_text,
                   current_people, latest_jpeg_frame, latest_bgr_frame, det_invoked,
                   predicted, pred_ids, frame_lock>>
    /\ UNCHANGED <<data_dir, clock, recognizer, label2id, id2label, recognizer_lock,
                   pc, tr, last_scan>>

\* lines 753-757: SIGINT / SIGTERM set stop_event
Signal ==
    /\ ~stop_event
    /\ stop_event' = TRUE
    /\ resp' = NoResp
    /\ UNCHANGED <<env_vars, loop_vars, session_vars>>
    /\ UNCHANGED <<data_dir, clock, recognizer, label2id, id2label, recognizer_lock,
                   pc, tr, last_scan>>

\* ------------------------------------------------------------- specification
\* The enrollment workflow: the capture handlers, the worker threads they
\* launch and the reloads these run.
Next ==
    \/ \E p \in Procs : ReloadScan(p)
    \/ \E p \in Procs : ReloadSetRec(p)
    \/ \E p \in Procs : ReloadSetI2l(p)
    \/ \E w \in Workers : WorkerInit(w)
    \/ \E w \in Workers : WorkerLoop(w)
    \/ \E w \in Workers : WorkerSave(w)
    \/ \E w \in Workers : WorkerSetSaved(w)
    \/ \E w \in Workers : WorkerSetRunning(w)
    \/ \E w \in Workers : WorkerRetrain(w)
    \/ \E t \in Threads, op \in {"start", "register"}, label \in Labels \cup {NoLabel},
          interval_ms \in RequestIntervals, target_count \in 1..MaxTarget,
          retrain \in BOOLEAN, wait \in BOOLEAN :
          /\ op = "start" => ~wait
          /\ StartCheck(t, op, label, interval_ms, target_count, retrain, wait)
    \/ \E t \in Threads : StartUpdate(t)
    \/ \E t \in Threads : StartClear(t)
    \/ \E t \in Threads : StartLaunch(t)
    \/ \E t \in Threads : RegisterWait(t)
    \/ \E t \in Threads : StopCheck(t)
    \/ \E t \in Threads : StopSet(t)
    \/ \E t \in Threads : StopJoin(t)
    \/ \E t \in Threads, label \in Labels \cup {NoLabel} : DeleteCheck(t, label)
    \/ \E t \in Threads : DeleteSet(t)
    \/ \E t \in Threads : DeleteJoin(t)
    \/ \E t \in Threads : DeleteRemove(t)
    \/ \E t \in Threads : DeleteReturn(t)

Spec == Init /\ [][Next]_vars

\* Training roots the server can find at start: empty, or images enrolled by
\* an earlier run (file name 0).
InitDirs == {{}, {[label |-> "alice", fn |-> 0]}}

\* The pipeline alone, under every decimation setting and training root.
InitLoop ==
    /\ InitProgram
    /\ data_dir \in InitDirs
    /\ DETECT_EVERY_N \in 1..MaxEveryN
    /\ RECOG_EVERY_N \in 1..MaxEveryN
    /\ VOTE_REQUIRE = 3
    /\ scene = Scenes
    /\ frame_limit = MaxFrames
    /\ time_limit = 0

NextLoop ==
    \/ LoopOpen
    \/ ReloadScan(Loop)
    \/ ReloadSetRec(Loop)
    \/ ReloadSetI2l(Loop)
    \/ LoopRead
    \/ LoopSnapRec
    \/ LoopSnapLabels
    \/ LoopBoxes
    \/ LoopPublishJpeg
    \/ LoopPublishBgr
    \/ Signal

SpecLoop == InitLoop /\ [][NextLoop]_vars

\* The recognizer hot swap: the pipeline with reloads from the request
\* handlers, under the default decimation.
InitSwap ==
    /\ InitProgram
    /\ data_dir \in InitDirs
    /\ DETECT_EVERY_N = 1
    /\ RECOG_EVERY_N = 2
    /\ VOTE_REQUIRE = 3
    /\ scene = Scenes
    /\ frame_limit = MaxSwapFrames
    /\ time_limit = 0

NextSwap ==
    \/ LoopOpen
    \/ \E p \in Threads \cup {Loop} : ReloadScan(p)
    \/ \E p \in Threads \cup {Loop} : ReloadSetRec(p)
    \/ \E p \in Threads \cup {Loop} : ReloadSetI2l(p)
    \/ LoopRead
    \/ LoopSnapRec
    \/ LoopSnapLabels
    \/ LoopBoxes
    \/ LoopPublishJpeg
    \/ LoopPublishBgr
    \/ \E t \in Threads : ClearRemove(t)
    \/ \E t \in Threads : ClearReturn(t)
    \/ \E t \in Threads : ReloadCall(t)
    \/ \E t \in Threads : ReloadReturn(t)
    \/ \E t \in Threads, label \in Labels \cup {NoLabel} : EnrollSave(t, label)
    \/ \E t \in Threads : EnrollReturn(t)
    \/ Signal

SpecSwap == InitSwap /\ [][NextSwap]_vars

\* A capture session running while the store is cleared: /capture/start, the
\* worker it launches with its saves and its retrain, and /recog/clear.
NextClear ==
    \/ \E p \in Procs : ReloadScan(p)
    \/ \E p \in Procs : ReloadSetRec(p)
    \/ \E p \in Procs : ReloadSetI2l(p)
    \/ \E w \in Workers : WorkerInit(w)
    \/ \E w \in Workers : WorkerLoop(w)
    \/ \E w \in Workers : WorkerSave(w)
    \/ \E w \in Workers : WorkerSetSaved(w)
    \/ \E w \in Workers : WorkerSetRunning(w)
    \/ \E w \in Workers : WorkerRetrain(w)
    \/ \E t \in Threads, label \in Labels \cup {NoLabel},
          interval_ms \in RequestIntervals, target_count \in 1..MaxTarget,
          retrain \in BOOLEAN :
          StartCheck(t, "start", label, interval_ms, target_count, retrain, FALSE)
    \/ \E t \in Threads : StartUpdate(t)
    \/ \E t \in Threads : StartClear(t)
    \/ \E t \in Threads : StartLaunch(t)
    \/ \E t \in Threads : ClearRemove(t)
    \/ \E t \in Threads : ClearReturn(t)

SpecClear == Init /\ [][NextClear]_vars

\* One step of worker thread w: its loop, its final writes, its retrain.
WorkerStep(w) ==
    \/ WorkerInit(w)
    \/ WorkerLoop(w)
    \/ WorkerSave(w)
    \/ WorkerSetSaved(w)
    \/ WorkerSetRunning(w)
    \/ WorkerRetrain(w)
    \/ ReloadScan(w)
    \/ ReloadSetRec(w)
    \/ ReloadSetI2l(w)

\* One step of a start handler that has been admitted.
StartStep(t) ==
    \/ StartUpdate(t)
    \/ StartClear(t)
    \/ StartLaunch(t)

\* Capture sessions that nobody stops: /capture/start and the workers.
NextLive ==
    \/ \E w \in Workers : WorkerStep(w)
    \/ \E t \in Threads, label \in Labels \cup {NoLabel},
          interval_ms \in RequestIntervals, target_count \in 1..MaxTarget,
          retrain \in BOOLEAN :
          StartCheck(t, "start", label, interval_ms, target_count, retrain, FALSE)
    \/ \E t \in Threads : StartStep(t)

\* Every started thread keeps being scheduled (the interpreter switches
\* threads at every sleep and every few milliseconds), and a handler that has
\* been admitted runs to its return.
SpecLive ==
    /\ Init
    /\ [][NextLive]_vars
    /\ \A w \in Workers : WF_vars(WorkerStep(w))
    /\ \A t \in Threads : WF_vars(StartStep(t))

\* One step of a force-stopping delete handler.
DeleteStep(t) ==
    \/ DeleteSet(t)
    \/ DeleteJoin(t)
    \/ DeleteRemove(t)
    \/ DeleteReturn(t)
    \/ ReloadScan(t)
    \/ ReloadSetRec(t)
    \/ ReloadSetI2l(t)

\* One step of a stop handler past its running test.
StopStep(t) ==
    \/ StopSet(t)
    \/ StopJoin(t)

\* Cancellation: sessions for one label that already has a sample on disk
\* (so that /recog/delete finds its directory), stopped by /recog/capture/stop
\* or force-stopped by /recog/delete, and started again.
CancelLabel == "alice"

InitCancel ==
    /\ InitSession
    /\ FirstFramePublished
    /\ data_dir = {[label |-> CancelLabel, fn |-> 0]}
    /\ DETECT_EVERY_N = 1
    /\ RECOG_EVERY_N = 2
    /\ VOTE_REQUIRE = 3
    /\ scene = Scenes
    /\ frame_limit = 1
    /\ time_limit = 0

NextCancel ==
    \/ \E w \in Workers : WorkerStep(w)
    \/ \E t \in Threads, interval_ms \in RequestIntervals,
          target_count \in 1..MaxTarget, retrain \in BOOLEAN :
          StartCheck(t, "start", CancelLabel, interval_ms, target_count, retrain, FALSE)
    \/ \E t \in Threads : StartStep(t)
    \/ \E t \in Threads : StopCheck(t)
    \/ \E t \in Threads : StopStep(t)
    \/ \E t \in Threads : DeleteCheck(t, CancelLabel)
    \/ \E t \in Threads : DeleteStep(t)

\* Started threads keep being scheduled, and a handler that has begun to
\* start, stop or delete runs to its return.
SpecCancel ==
    /\ InitCancel
    /\ [][NextCancel]_vars
    /\ \A w \in Workers : WF_vars(WorkerStep(w))
    /\ \A t \in Threads : WF_vars(StartStep(t) \/ StopStep(t) \/ DeleteStep(t))

\* A label removed while it is being voted for: the pipeline under the
\* default settings on a store that holds one label, and /recog/clear.
InitStale ==
    /\ InitProgram
    /\ data_dir = {[label |-> "alice", fn |-> 0]}
    /\ DETECT_EVERY_N = 1
    /\ RECOG_EVERY_N = 2
    /\ VOTE_REQUIRE = 3
    /\ scene = Scenes
    /\ frame_limit = MaxStaleFrames
    /\ time_limit = 0

NextStale ==
    \/ LoopOpen
    \/ \E p \in Threads \cup {Loop} : ReloadScan(p)
    \/ \E p \in Threads \cup {Loop} : ReloadSetRec(p)
    \/ \E p \in Threads \cup {Loop} : ReloadSetI2l(p)
    \/ LoopRead
    \/ LoopSnapRec
    \/ LoopSnapLabels
    \/ LoopBoxes
    \/ LoopPublishJpeg
    \/ LoopPublishBgr
    \/ \E t \in Threads : ClearRemove(t)
    \/ \E t \in Threads : ClearReturn(t)

SpecStale == InitStale /\ [][NextStale]_vars

\* -------------------------------------------------------------- api_current
\* A filter that would drop an entry on the very tick it expires.
NotExpiredStrict(p, now) == now - p.ts < CURRENT_EXPIRE_TICKS

\* line 749: (now - float(p.get("ts", now))) <= CURRENT_EXPIRE_SEC
NotExpired(p, now) == now - p.ts <= CURRENT_EXPIRE_TICKS

\* line 745: now = time.time()
CurrentNow(t) ==
    /\ pc[t] = "idle"
    /\ req' = [req EXCEPT ![t] = [NoReq EXCEPT !.op = "current", !.now = time]]
    /\ pc' = [pc EXCEPT ![t] = "cur_read"]
    /\ resp' = NoResp
    /\ UNCHANGED <<env_vars, loop_vars, stop_event>>
    /\ UNCHANGED <<capture_state, capture_event, capture_thread, wk, data_dir, clock,
                   recognizer, label2id, id2label, recognizer_lock, tr,
                   last_stop, last_scan>>

\* lines 746-751: the list is filtered under current_people_lock and returned
CurrentRead(t) ==
    /\ pc[t] = "cur_read"
    /\ resp' = [NoResp EXCEPT !.op = "current", !.code = 200,
                              !.people = SelectSeq(current_people,
                                            LAMBDA p : NotExpired(p, req[t].now)),
                              !.ts = req[t].now]
    /\ pc' = [pc EXCEPT ![t] = "idle"]
    /\ req' = [req EXCEPT ![t] = NoReq]
    /\ UNCHANGED <<env_vars, loop_vars, stop_event>>
    /\ UNCHANGED <<capture_state, capture_event, capture_thread, wk, data_dir, clock,
                   recognizer, label2id, id2label, recognizer_lock, tr,
                   last_stop, last_scan>>

\* The pipeline publishing people while time passes and /recog/current is
\* polled.
InitCurrent ==
    /\ InitProgram
    /\ data_dir = {}
    /\ DETECT_EVERY_N = 1
    /\ RECOG_EVERY_N = 2
    /\ VOTE_REQUIRE = 3
    /\ scene = Scenes
    /\ frame_limit = MaxCurrentFrames
    /\ time_limit = MaxTime

NextCurrent ==
    \/ LoopOpen
    \/ ReloadScan(Loop)
    \/ ReloadSetRec(Loop)
    \/ ReloadSetI2l(Loop)
    \/ LoopRead
    \/ LoopSnapRec
    \/ LoopSnapLabels
    \/ LoopBoxes
    \/ LoopPublishJpeg
    \/ LoopPublishBgr
    \/ Tick
    \/ \E t \in Threads : CurrentNow(t)
    \/ \E t \in Threads : CurrentRead(t)

SpecCurrent == InitCurrent /\ [][NextCurrent]_vars

\* The vote of lines 256-266 alone, fed with every sequence of best guesses.
VoteLabels == {"A", "B", "C", "D", "E"}
VoteEntries ==
    {[label |-> l, conf |-> RECOG_THRESHOLD] : l \in VoteLabels}
       \cup {[label |-> "unknown", conf |-> NoConf]}

\* lines 256-266 on a recognition cycle whose best guess is e
VoteFeed(e) ==
    /\ pred_hist' = DequeAppend(pred_hist, e)
    /\ final_text' = Smoothed(pred_hist')
    /\ UNCHANGED <<env_vars, stop_event, session_vars, frame_idx, faces_fullres,
                   do_detect, do_recog, rec_snap, labels_snap, current_people,
                   latest_jpeg_frame, latest_bgr_frame, det_invoked, predicted,
                   pred_ids, frame_lock, time>>
    /\ UNCHANGED <<data_dir, clock, recognizer, label2id, id2label, recognizer_lock,
                   pc, tr, resp, last_scan>>

InitVote ==
    /\ InitProgram
    /\ data_dir = {}
    /\ DETECT_EVERY_N = 1
    /\ RECOG_EVERY_N = 2
    /\ VOTE_REQUIRE \in 1..MaxRequire
    /\ scene = Scenes
    /\ frame_limit = 0
    /\ time_limit = 0

NextVote == \E e \in VoteEntries : VoteFeed(e)

SpecVote == InitVote /\ [][NextVote]_vars

\* ====================================================================== claims

\* ---------------------------------------------------------------------- C1
\* C1: at most one capture-worker thread is alive at any time (alive: from its
\* launch until its loop, its final state writes and its retrain are over).
C1_AtMostOneWorkerAlive == Cardinality({w \in Workers : Alive(w)}) <= 1

\* ---------------------------------------------------------------------- C2
\* C2: a start or register request with a label, arriving while
\* capture_state["running"] is true, is answered 409 in that same step, and the
\* step changes nothing: not the session (saved, label, interval, target, flags),
\* not the cancellation flag, not capture_thread, and no thread moves (no
\* worker is launched, the handler does not go on).
C2_StartConflictNoChange ==
    [][ \A t \in Threads, op \in {"start", "register"}, label \in Labels,
           interval_ms \in RequestIntervals, target_count \in 1..MaxTarget,
           retrain \in BOOLEAN, wait \in BOOLEAN :
           (capture_state.running
              /\ StartCheck(t, op, label, interval_ms, target_count, retrain, wait))
           => /\ resp'.op = op /\ resp'.code = 409
              /\ UNCHANGED <<capture_state, capture_event, capture_thread, wk, pc,
                             data_dir, recognizer, label2id, id2label>> ]_vars

\* A conflict answer given while a session with a saved sample is running.
C2_Witness ==
    /\ resp.code = 409
    /\ capture_state.running
    /\ \E w \in Workers : Alive(w) /\ wk[w].saved # <<>>

\* ---------------------------------------------------------------------- C3
\* C3: a stop request that follows another stop request, with no start request
\* in between, reports the same saved list as the one before it.
C3_StopIdempotent ==
    (resp.op = "stop" /\ resp.prev_valid) => resp.saved = resp.prev_saved

\* ---------------------------------------------------------------------- C4
\* C4: once a stop request has returned for a session that was running, the
\* saved list it reported is final: capture_state["saved"] keeps that value
\* (until a start request).
C4_StopReportsFinalSaved ==
    (last_stop.valid /\ last_stop.was_running)
        => capture_state.saved = last_stop.saved

\* ---------------------------------------------------------------------- C5
\* C5: whenever capture_state["running"] reads false after a session with
\* retrain_on_stop set, that session's reload has already been done: no worker
\* stands between its running = False write and the end of its reload.
RetrainPending(w) ==
    \/ pc[w] = "w_retrain" /\ capture_state.retrain_on_stop
    \/ pc[w] \in {"reload_scan", "reload_rec", "reload_i2l"}

C5_RetrainBeforeIdle ==
    ~capture_state.running => \A w \in Workers : ~RetrainPending(w)

\* ---------------------------------------------------------------------- C7
\* C7: reloads are serialized, so whenever no reload is in progress the active
\* model and registry are the ones trained from the latest scan of the store.
InReload(p) == pc[p] \in {"reload_scan", "reload_rec", "reload_i2l"}

C7_LatestScanWins ==
    (\A p \in Procs : ~InReload(p))
        => /\ recognizer = last_scan.rec
           /\ label2id = last_scan.l2i
           /\ id2label = last_scan.i2l

\* ---------------------------------------------------------------------- C8
\* C8: when a delete request that force-stopped the running session of its
\* label returns, the label is absent from the labels it reports (GetLabels())
\* and the store holds no sample of the label: the stopped worker wrote none
\* after the removal and no retrain brought the label back.
C8_DeleteForcesStop ==
    (resp.op = "delete" /\ resp.code = 200 /\ resp.forced)
        => /\ resp.deleted \notin resp.labels
           /\ ~DirExists(resp.deleted)

\* ---------------------------------------------------------------------- C6
\* C6: Reload is atomic for readers.  The (model, id-to-label registry) pair
\* detection_loop holds for a cycle comes from one training run: the registry
\* is the one train_recognizer_from_dir built with that model.  The pair is
\* held in locals, so the boxes of a cycle are all labelled from it: every
\* name published for the cycle is a class of the model of that cycle.
SamePair(rec, labels) == labels = FnOfSeq(rec.classes)

C6_ReloadAtomicForReaders ==
    /\ pc[Loop] # "l_snap_labels" => SamePair(rec_snap, labels_snap)
    /\ pc[Loop] \in {"l_read", "l_snap", "l_done"} =>
          \A i \in DOMAIN current_people :
             current_people[i].label # "unknown" =>
                \E k \in DOMAIN rec_snap.classes :
                   rec_snap.classes[k] = current_people[i].label

\* The loop holds its pair for a cycle while a handler's reload is in the
\* middle of its swap, the shared model already replaced.
C6_Witness ==
    /\ pc[Loop] = "l_boxes"
    /\ rec_snap.trained
    /\ recognizer # rec_snap
    /\ \E t \in Threads : pc[t] = "reload_i2l"

\* ---------------------------------------------------------------------- C9
\* C9: for every frame index i of a frame read (i = frame_idx, counted from 1),
\* the detector is invoked in cycle i if and only if i mod DETECT_EVERY_N = 0.
C9_DetectEveryN ==
    frame_idx >= 1 => (det_invoked <=> frame_idx % DETECT_EVERY_N = 0)

\* The sixth frame under DETECT_EVERY_N = 3: the detector runs again after two
\* cycles that reused the boxes.
C9_Witness ==
    /\ DETECT_EVERY_N = MaxEveryN
    /\ frame_idx = 2 * MaxEveryN
    /\ det_invoked
    /\ pc[Loop] = "l_boxes"

\* ---------------------------------------------------------------------- C10
\* C10: for every frame index i of a frame read, cycle i is a recognition cycle
\* if and only if i mod RECOG_EVERY_N = 0; rec.predict is called in no other
\* cycle, and in a recognition cycle with a model loaded it is called for
\* exactly the boxes whose shorter side is at least RECOG_MIN_SIDE.
CycleDone == frame_idx >= 1 /\ pc[Loop] \in {"l_read", "l_done"}

C10_RecogEveryN ==
    /\ (frame_idx >= 1 /\ pc[Loop] # "l_raised")
          => (do_recog <=> frame_idx % RECOG_EVERY_N = 0)
    /\ frame_idx % RECOG_EVERY_N # 0 => predicted = {}
    /\ (CycleDone /\ frame_idx % RECOG_EVERY_N = 0 /\ rec_snap.trained) =>
          predicted = {i \in DOMAIN current_people :
                          /\ current_people[i].bbox.w >= RECOG_MIN_SIDE
                          /\ current_people[i].bbox.h >= RECOG_MIN_SIDE}

\* The third frame under RECOG_EVERY_N = 3, two boxes: the larger one too
\* narrow, the second one predicted.
C10_Witness ==
    /\ RECOG_EVERY_N = MaxEveryN
    /\ frame_idx = MaxEveryN
    /\ CycleDone
    /\ Len(current_people) = 2
    /\ predicted = {2}

\* ---------------------------------------------------------------------- C11
\* C11: the smoothed label over the vote window is the most frequent label
\* other than "unknown" (among equals, the one met first) when it has at least
\* VOTE_REQUIRE votes, and "unknown" otherwise, also when the window names
\* nobody; with VOTE_REQUIRE = 3, [A,A,A,B,B] gives A and [A,B,C,D,E] gives
\* "unknown".
WindowLabels == [i \in 1..Len(pred_hist) |-> pred_hist[i].label]
WindowCount(l) == Cardinality({i \in 1..Len(pred_hist) : pred_hist[i].label = l})
WindowFirst(l) == CHOOSE i \in 1..Len(pred_hist) :
                     pred_hist[i].label = l /\ \A j \in 1..(i - 1) : pred_hist[j].label # l
WindowNamed == {pred_hist[i].label : i \in 1..Len(pred_hist)} \ {"unknown"}

C11_SmoothedLabel ==
    /\ final_text # "unknown" =>
          /\ final_text \in WindowNamed
          /\ WindowCount(final_text) >= VOTE_REQUIRE
          /\ \A m \in WindowNamed \ {final_text} :
                \/ WindowCount(m) < WindowCount(final_text)
                \/ /\ WindowCount(m) = WindowCount(final_text)
                   /\ WindowFirst(final_text) < WindowFirst(m)
    /\ final_text = "unknown" =>
          \A l \in WindowNamed : WindowCount(l) < VOTE_REQUIRE
    /\ (VOTE_REQUIRE = 3 /\ WindowLabels = <<"A", "A", "A", "B", "B">>) => final_text = "A"
    /\ (VOTE_REQUIRE = 3 /\ WindowLabels = <<"A", "B", "C", "D", "E">>)
          => final_text = "unknown"

\* Two labels with two votes each under VOTE_REQUIRE = 2: the one met first wins.
C11_Witness ==
    /\ VOTE_REQUIRE = 2
    /\ WindowLabels = <<"B", "A", "A", "B">>
    /\ final_text = "B"

\* ---------------------------------------------------------------------- C12
\* C12: in every cycle, a box whose shorter side is below RECOG_MIN_SIDE is
\* never sent to rec.predict, and it is reported as "unknown" with no
\* confidence.
C12_SmallBoxNeverPredicted ==
    \A i \in DOMAIN current_people :
       (current_people[i].bbox.w < RECOG_MIN_SIDE
           \/ current_people[i].bbox.h < RECOG_MIN_SIDE) =>
          /\ i \notin predicted
          /\ current_people[i].label = "unknown"
          /\ current_people[i].conf = NoConf

\* A recognition cycle with a model loaded: the larger box is too narrow and
\* goes unlabelled, the box behind it is recognized.
C12_Witness ==
    /\ CycleDone
    /\ do_recog
    /\ Len(current_people) = 2
    /\ current_people[1].bbox = ThinBox
    /\ current_people[1].conf = NoConf
    /\ current_people[2].label = "alice"
    /\ predicted = {2}

\* ---------------------------------------------------------------------- C13
\* C13: a reload on an empty training root goes through and installs a null
\* model together with an empty registry; every cycle of detection_loop whose
\* snapshot is that null model reports every box as "unknown".
NullInstalled(rec, l2i, i2l) == ~rec.trained /\ DOMAIN l2i = {} /\ DOMAIN i2l = {}

C13_ReloadSteps ==
    \A p \in Procs :
       /\ (pc[p] = "reload_scan" /\ pc'[p] = "reload_rec" /\ data_dir = {})
             => NullInstalled(tr'[p].rec, tr'[p].l2i, tr'[p].i2l)
       /\ (pc[p] = "reload_rec" /\ pc'[p] = "reload_i2l" /\ ~tr[p].rec.trained)
             => ~recognizer'.trained /\ DOMAIN label2id' = {}
       /\ (pc[p] = "reload_i2l" /\ pc'[p] # "reload_i2l" /\ ~recognizer.trained)
             => /\ NullInstalled(recognizer', label2id', id2label')
                /\ pc'[p] = AfterReload(p)

C13_NullCycles ==
    /\ (LockFree /\ ~recognizer.trained) =>
          NullInstalled(recognizer, label2id, id2label)
    /\ (pc[Loop] \notin {"l_snap_labels", "l_boxes"} /\ ~rec_snap.trained) =>
          /\ DOMAIN labels_snap = {}
          /\ predicted = {}
          /\ \A i \in DOMAIN current_people : current_people[i].label = "unknown"

C13_EmptyRootNullModel == [][C13_ReloadSteps]_vars /\ []C13_NullCycles

\* Somebody was enrolled, the training root was cleared and reloaded, and a
\* recognition cycle with a face in view has run on the null model.
C13_Witness ==
    /\ clock >= 1
    /\ data_dir = {}
    /\ ~last_scan.rec.trained
    /\ ~rec_snap.trained
    /\ pc[Loop] = "l_read"
    /\ do_recog
    /\ Len(current_people) >= 1
    /\ current_people[1].bbox = SquareBox

\* ---------------------------------------------------------------------- C14
\* C14: /recog/current, with `now` the time it took, returns exactly the
\* entries of the published current_people whose age now - ts is at most
\* CURRENT_EXPIRE_SEC, in their published order.
C14_CurrentPeopleFresh ==
    resp.op = "current" =>
       resp.people = SelectSeq(current_people,
                        LAMBDA p : resp.ts - p.ts <= CURRENT_EXPIRE_TICKS)

\* Two people published at different times: the older has expired, the other
\* is exactly CURRENT_EXPIRE_SEC old and is returned.
C14_Witness ==
    /\ resp.op = "current"
    /\ Len(current_people) = 2
    /\ Len(resp.people) = 1
    /\ resp.ts - resp.people[1].ts = CURRENT_EXPIRE_TICKS

\* ---------------------------------------------------------------------- C16
\* C16: when /recog/clear returns, the store holds no sample of any label and
\* the active recognizer is the empty model with empty registries (so
\* /recog/labels lists nothing), also with a capture session running beside it.
C16_ClearLeavesEmpty ==
    (resp.op = "clear" /\ resp.code = 200)
        => /\ data_dir = {}
           /\ NullInstalled(recognizer, label2id, id2label)
           /\ GetLabels = {}

\* ---------------------------------------------------------------------- C17
\* C17: until the first cycle publishes there is neither an encoded nor a raw
\* frame; whenever frame_lock is free (what a reader holding it sees) the two
\* are both absent or both present and of the same cycle, a cycle the loop
\* has read.
C17_FramePairUnderLock ==
    /\ frame_idx = 0 => latest_jpeg_frame = 0 /\ latest_bgr_frame = 0
    /\ frame_lock = 0 => latest_jpeg_frame = latest_bgr_frame
    /\ latest_jpeg_frame <= frame_idx /\ latest_bgr_frame <= frame_idx

\* The loop is between the two writes of a later publication: the encoded
\* frame is already the new one, the raw frame still the previous one, and the
\* lock is held.
C17_Witness ==
    /\ pc[Loop] = "l_pub_bgr"
    /\ frame_lock = Loop
    /\ latest_jpeg_frame = frame_idx
    /\ latest_bgr_frame >= 1
    /\ latest_bgr_frame < latest_jpeg_frame

\* ---------------------------------------------------------------------- C18
\* C18: every capture session that is started is eventually finalized: from
\* any state with capture_state["running"] true a state with it false
\* follows, under fair scheduling of the worker, whatever the detector finds
\* and without a stop request.
C18_SessionEventuallyFinalized ==
    capture_state.running ~> ~capture_state.running

\* ---------------------------------------------------------------------- C19
\* C19: pred_hist changes only in the box loop of a recognition cycle, and
\* then by exactly one entry at its end: the (label, conf) published for the
\* primary box, which is a box of the largest area, or ("unknown", None) when
\* the cycle has no box; a full window drops its oldest entry for it.  No
\* other step, and no cycle that is not a recognition cycle, changes the
\* window, which never holds more than VOTE_WINDOW entries.
C19_Entry ==
    IF Len(current_people') > 0
    THEN [label |-> current_people'[1].label, conf |-> current_people'[1].conf]
    ELSE [label |-> "unknown", conf |-> NoConf]

C19_BoxLoopEnds == pc[Loop] = "l_boxes" /\ pc'[Loop] # "l_boxes"

C19_WindowStep ==
    /\ (C19_BoxLoopEnds /\ do_recog)
          => /\ pred_hist' = IF Len(pred_hist) < VOTE_WINDOW
                             THEN Append(pred_hist, C19_Entry)
                             ELSE Append(Tail(pred_hist), C19_Entry)
             /\ \A i \in DOMAIN current_people' :
                   Area(current_people'[1].bbox) >= Area(current_people'[i].bbox)
    /\ ~(C19_BoxLoopEnds /\ do_recog) => pred_hist' = pred_hist

C19_VoteWindowFedOncePerRecogCycle ==
    [][C19_WindowStep]_vars /\ [](Len(pred_hist) <= VOTE_WINDOW)

\* Every cycle a recognition cycle: the sixth has just fed a full window, whose
\* oldest entry (the first cycle's) left; the entry fed is a named primary box.
C19_Witness ==
    /\ RECOG_EVERY_N = 1
    /\ frame_idx = VOTE_WINDOW + 1
    /\ CycleDone
    /\ Len(pred_hist) = VOTE_WINDOW
    /\ Len(current_people) = 1
    /\ current_people[1].label = "alice"
    /\ pred_hist[VOTE_WINDOW].label = "alice"
    /\ pred_hist[1].label = "unknown"

\* ---------------------------------------------------------------------- C20
\* C20: for every box of a cycle that was passed to rec.predict, the label
\* published is the label the cycle's id2label snapshot gives the predicted id
\* exactly when predict returned a distance of at most RECOG_THRESHOLD and
\* the snapshot holds that id; when the distance is above the threshold, the
\* id is not in the snapshot, or predict raised, the label is "unknown".
C20_LabelIffAccepted ==
    \A i \in predicted :
       LET out == pred_ids[i]
           inRegistry == out.pred_id \in DOMAIN labels_snap
           accepted == ~out.raised /\ out.conf <= RECOG_THRESHOLD /\ inRegistry
       IN  /\ accepted => current_people[i].label = labels_snap[out.pred_id]
           /\ ~accepted => current_people[i].label = "unknown"
           /\ \A id \in DOMAIN labels_snap : labels_snap[id] # "unknown"

\* A box whose distance is exactly the threshold is given its label, beside
\* a box too small to be predicted.
C20_Witness ==
    /\ predicted = {2}
    /\ ~pred_ids[2].raised
    /\ pred_ids[2].conf = RECOG_THRESHOLD
    /\ pred_ids[2].pred_id \in DOMAIN labels_snap
    /\ current_people[2].label = "alice"

\* ---------------------------------------------------------------------- C21
\* C21: no failure of detectMultiScale or of rec.predict inside a cycle ends
\* detection_loop: the thread never stops on an exception, and a box whose
\* predict raised is published as "unknown" by a cycle that goes on.
C21_FailureNeverAbortsLoop ==
    /\ pc[Loop] # "l_raised"
    /\ \A i \in predicted :
          pred_ids[i].raised => /\ current_people[i].label = "unknown"
                                /\ pc[Loop] \in {"l_pub_jpeg", "l_pub_bgr",
                                                 "l_read", "l_done"}

\* ---------------------------------------------------------------------- C22
\* C22: once the camera has been opened (here: a frame has been read),
\* detection_loop is over only after stop_event has been set, whether it left
\* through its loop test (line 167) or in any other way.
LoopEnded == pc[Loop] \in {"l_done", "l_raised"}

C22_LoopEndsOnlyOnStop ==
    (LoopEnded /\ frame_idx >= 1) => stop_event

\* ---------------------------------------------------------------------- C23
\* C23: a worker finalizes only the session it was launched for: whenever a
\* worker writes capture_state["saved"] (line 358) or clears
\* capture_state["running"] (line 359) while a session is running, it is the
\* worker launched last, the one capture_thread holds.
C23_WorkerFinalizesOwnSession ==
    [][ \A w \in Workers :
           ((WorkerSetSaved(w) \/ WorkerSetRunning(w)) /\ capture_state.running)
              => capture_thread = w ]_vars

\* ---------------------------------------------------------------------- C24
\* C24: a cancellation is never lost.  Whenever capture_event is set while
\* the session of worker w (the thread capture_thread holds) is running and
\* w is still inside its capture loop, w eventually leaves the loop, whatever
\* start requests are interleaved.
InLoop(w) == pc[w] \in {"w_init", "w_loop", "w_save", "w_sleep"}

C24_CancellationNeverLost ==
    \A w \in Workers :
       (capture_event /\ capture_state.running /\ capture_thread = w /\ InLoop(w))
          ~> ~InLoop(w)

\* ---------------------------------------------------------------------- C25
\* C25: at the end of every cycle's labelling the smoothed label final_text
\* is "unknown" or a label of the id2label snapshot the cycle took.
SnapshotLabels == {labels_snap[id] : id \in DOMAIN labels_snap}

C25_SmoothedLabelInSnapshot ==
    pc[Loop] \in {"l_pub_jpeg", "l_pub_bgr", "l_read", "l_done"}
       => final_text \in SnapshotLabels \cup {"unknown"}

====
